---- MODULE Spec2Model ----
(***************************************************************************)
(* Request dispatch of tinyhttp's App (packages/app/src/app.ts).           *)
(*                                                                         *)
(* The state is the application tree (every App's `middleware` array and   *)
(* `apps` mount table) and one request followed through its dispatch: its  *)
(* request and response objects and the closure App.handler creates for    *)
(* it (idx, len, the app whose handler owns the closure).  `pc` is the     *)
(* position of the request's synchronous run inside App.handler ("idle":   *)
(* no run of it is on the stack).  Other requests arrive on the same       *)
(* application before, after and while the followed request is suspended;  *)
(* their request and response objects and closures are their own, and      *)
(* what they do to the application is modelled: App.handler appends its    *)
(* not-found entry to this.middleware.  Handlers are user code: once       *)
(* invoked they may end the response, call their continuation (with or     *)
(* without an error, any number of times, at any later time) or throw.     *)
(***************************************************************************)
EXTENDS Naturals, Sequences, FiniteSets, TLC

(***************************************************************************)
(* Bounds of the exploration.                                              *)
(***************************************************************************)
MaxEntries == 2      \* registered entries of an application without mounts
MaxOther == 1        \* other requests dispatched by the same application tree
MaxSinkCalls == 2    \* onError invocations the handlers of a request may cause

Root == 0
SubApps == {1, 2}
AppIds == {Root} \cup SubApps

Methods == {"GET", "POST"}
Urls == {"/", "/a", "/ab", "/a/b", "/a?q"}

(***************************************************************************)
(* Values a continuation can be called with / a handler can throw.         *)
(* "undefined" stands for every falsy JavaScript value (next() passes      *)
(* undefined), "e1" for a truthy error value; NotFound is the              *)
(* { code: 404 } object the constructor binds into noMatchHandler.         *)
(***************************************************************************)
Undefined == "undefined"
Errs == {"e1"}
NotFound == "code404"
Truthy(v) == v # Undefined

(***************************************************************************)
(* String helpers (JavaScript String methods and url.parse).               *)
(***************************************************************************)
charAt(s, i) == IF i >= 1 /\ i <= Len(s) THEN SubSeq(s, i, i) ELSE ""

\* String.prototype.substring(n): the characters from (0-based) index n on.
substring(s, n) == IF n >= Len(s) THEN "" ELSE SubSeq(s, n + 1, Len(s))

startsWith(s, p) == Len(p) <= Len(s) /\ SubSeq(s, 1, Len(p)) = p

\* lead: add a leading slash if not present ("" becomes "/").
lead(x) == IF charAt(x, 1) = "/" THEN x ELSE "/" \o x

\* url.parse(u).pathname: the URL up to its query string or fragment.
RECURSIVE pathnameAcc(_, _)
pathnameAcc(u, acc) ==
    IF u = "" \/ Head(u) = "?" \/ Head(u) = "#" THEN acc
    ELSE pathnameAcc(Tail(u), acc \o Head(u))

pathname(u) == pathnameAcc(u, "")

(***************************************************************************)
(* Pattern matching (@tinyhttp/req: matchLoose, runRegex, matchParams).    *)
(***************************************************************************)
\* The segments of a path: the non-empty pieces between slashes.
RECURSIVE segmentsAcc(_, _, _)
segmentsAcc(s, cur, acc) ==
    IF s = "" THEN (IF cur = "" THEN acc ELSE Append(acc, cur))
    ELSE IF Head(s) = "/"
         THEN segmentsAcc(Tail(s), "", IF cur = "" THEN acc ELSE Append(acc, cur))
         ELSE segmentsAcc(Tail(s), cur \o Head(s), acc)

segments(s) == segmentsAcc(s, "", <<>>)

\* Loose (prefix) match: the pathname is the pattern, or begins with it
\* immediately followed by "/".  The root pattern "/" is a prefix of every
\* pathname.
matchLoose(path, pn) ==
    LET p == IF path = "/" THEN "" ELSE path
    IN  /\ startsWith(pn, p)
        /\ (Len(pn) = Len(p) \/ charAt(pn, Len(p) + 1) = "/")

\* A pattern segment ":name" is a named parameter.
isParam(seg) == Len(seg) > 1 /\ charAt(seg, 1) = ":"

\* Strict match: every pattern segment is a literal equal to the pathname's
\* segment or a parameter (one segment), and no segment is left over.
matchParams(path, pn) ==
    LET ps == segments(path)
        us == segments(pn)
    IN  /\ Len(ps) = Len(us)
        /\ \A k \in 1..Len(ps) : isParam(ps[k]) \/ ps[k] = us[k]

\* The parameters a strict match captures, as <<name, value>> pairs.
getURLParams(path, pn) ==
    LET ps == segments(path)
        us == segments(pn)
    IN  {<<SubSeq(ps[k], 2, Len(ps[k])), us[k]>> : k \in {j \in 1..Len(ps) : isParam(ps[j])}}

(***************************************************************************)
(* Entries of App.middleware (Middleware of @tinyhttp/router).             *)
(* A handler is a synchronous function, an AsyncFunction, or the app's     *)
(* noMatchHandler.                                                         *)
(***************************************************************************)
SyncFn == "function"
AsyncFn == "AsyncFunction"
NoMatchHandler == "noMatchHandler"

Route(m, p, h) == [type |-> "route", method |-> m, path |-> p, handler |-> h]
Mw(p, h) == [type |-> "mw", method |-> "", path |-> p, handler |-> h]

\* Faulty variant: the not-found entry registered as a route: it has no method to match.
noMatchAsRoute == Route("", "/", NoMatchHandler)

\* The entry App.handler builds for the not-found case.
noMatchMW == Mw("/", NoMatchHandler)

MountPaths == {"/a", "/a/b"}

\* The entries an application registers: routes (under GET) and middleware,
\* with synchronous and asynchronous handlers.
EntryPool ==
    {Route("GET", "/:p", AsyncFn), Mw("/", SyncFn), Mw("/a", AsyncFn)}

SeqsUpTo(S, n) == UNION {[1..k -> S] : k \in 0..n}

(***************************************************************************)
(* State.                                                                  *)
(***************************************************************************)
VARIABLES
    apps,        \* this.apps of every App: the mounts, in insertion order
    middleware,  \* this.middleware of every App
    others,      \* the number of other requests dispatched so far
    pc,          \* the followed request: "new", "handler", "loop" or "idle"
    req,         \* its request object
    res,         \* its response object
    cl,          \* the closure of App.handler for it: app, idx, len
    hist         \* what has happened to it (history)

vars == <<apps, middleware, others, pc, req, res, cl, hist>>

\* The mount tables explored: distinct mount paths, the k-th mounts sub-app k.
MountTables ==
    {m \in SeqsUpTo(MountPaths, Cardinality(SubApps)) :
        \A i, j \in 1..Len(m) : i # j => m[i] # m[j]}

\* The registries of a mounted sub-application, and of an application that
\* mounts sub-applications.
SubRegistries == {<<>>, <<Mw("/a", AsyncFn)>>}
SmallRegistries == {<<Mw("/", SyncFn)>>, <<Route("GET", "/a", SyncFn)>>}

MountsOf(m) ==
    [a \in AppIds |->
        IF a = Root THEN [k \in 1..Len(m) |-> [path |-> m[k], app |-> k]] ELSE <<>>]

\* The application trees explored, as <<apps, middleware>>: one application
\* with up to MaxEntries entries and no mount, or a small application with
\* one or two mounted sub-applications.
PlainTrees ==
    {<<MountsOf(<<>>), [a \in AppIds |-> IF a = Root THEN mw ELSE <<>>]>> :
        mw \in SeqsUpTo(EntryPool, MaxEntries)}

SubRegistriesFor(m) ==
    {f \in [SubApps -> SubRegistries] : \A k \in SubApps : k > Len(m) => f[k] = <<>>}

MountedTrees ==
    UNION {{<<MountsOf(m), [a \in AppIds |-> IF a = Root THEN mw ELSE sub[a]]>> :
               mw \in SmallRegistries, sub \in SubRegistriesFor(m)} :
           m \in MountTables \ {<<>>}}

\* The state after construction and registration, before the first request.
Init ==
    /\ \E tree \in PlainTrees \cup MountedTrees :
         /\ apps = tree[1]
         /\ middleware = tree[2]
    /\ others = 0
    /\ pc = "new"
    /\ req = [method |-> "", url |-> "", originalUrl |-> "", path |-> "",
              params |-> <<>>, route |-> <<>>]
    /\ res = [writableEnded |-> FALSE, statusCode |-> 200]
    /\ cl = [app |-> Root, idx |-> 0, len |-> 0]
    /\ hist = [url0 |-> "", before |-> 0, calls |-> <<>>, attempts |-> <<>>,
               sink |-> <<>>, thrown |-> {}]

\* A synchronous run of the followed request is on the stack.
Running == pc \in {"handler", "loop"}

(***************************************************************************)
(* App.handler, up to the first call of loop.                              *)
(***************************************************************************)
\* Object.keys(this.apps).find((x) => req.url.startsWith(x)): the index of
\* the first mount whose path the URL starts with, 0 if there is none.
subappPath(a, url) ==
    LET hits == {k \in 1..Len(apps[a]) : startsWith(url, apps[a][k].path)}
    IN  IF hits = {} THEN 0
        ELSE CHOOSE k \in hits : \A j \in hits : k <= j

\* Faulty variant: a delegation that strips the mount path from the URL first.
DelegatedStripped(rq, mountPath) ==
    [rq EXCEPT !.url = lead(substring(rq.url, Len(mountPath)))]

\* The request object handed to the sub-application's handler.
Delegated(rq, mountPath) == rq

\* The app whose handler ends up walking its list for a request of this URL
\* that arrives at app a (the sub-applications of the tree mount nothing).
RECURSIVE WalkerOf(_, _)
WalkerOf(a, url) ==
    IF subappPath(a, url) = 0 THEN a
    ELSE WalkerOf(apps[a][subappPath(a, url)].app, url)

(***************************************************************************)
(* listen: the server's 'request' event calls this.handler(req, res).      *)
(***************************************************************************)
\* The followed request arrives.
Request(m, u) ==
    /\ pc = "new"
    /\ pc' = "handler"
    /\ req' = [req EXCEPT !.method = m, !.url = u]
    /\ cl' = [app |-> Root, idx |-> 0, len |-> 0]
    /\ hist' = [hist EXCEPT !.url0 = u, !.before = others,
                            !.calls = <<[app |-> Root, url |-> u]>>]
    /\ UNCHANGED <<apps, middleware, others, res>>

\* Another request arrives while no run of the followed one is on the
\* stack: the handler of the app that walks for it pushes its noMatchMW.
OtherRequest(u) ==
    /\ ~Running
    /\ others < MaxOther
    /\ others' = others + 1
    /\ middleware' = [middleware EXCEPT ![WalkerOf(Root, u)] = Append(@, noMatchMW)]
    /\ UNCHANGED <<apps, pc, req, res, cl, hist>>

HandlerEntry ==
    /\ pc = "handler"
    /\ LET a == cl.app
           k == subappPath(a, req.url)
       IN  IF k # 0
           THEN \* this.apps[subappPath].handler(req, res); return
                /\ req' = Delegated(req, apps[a][k].path)
                /\ cl' = [cl EXCEPT !.app = apps[a][k].app]
                /\ hist' = [hist EXCEPT !.calls =
                              Append(@, [app |-> apps[a][k].app, url |-> req'.url])]
                /\ UNCHANGED <<middleware, pc>>
           ELSE \* mw.push(noMatchMW); idx = 0; len = mw.length - 1
                /\ middleware' = [middleware EXCEPT ![a] = Append(@, noMatchMW)]
                /\ cl' = [app |-> a, idx |-> 0, len |-> Len(middleware'[a]) - 1]
                /\ pc' = "loop"
                /\ UNCHANGED <<req, hist>>
    /\ UNCHANGED <<apps, others, res>>

(***************************************************************************)
(* handle and loop.                                                        *)
(***************************************************************************)
\* req.url = lead(req.url.substring(path.length)) || '/'
strip(url, path) ==
    LET x == lead(substring(url, Len(path)))
    IN  IF x = "" THEN "/" ELSE x

\* handle, before matching: snapshot originalUrl, strip url, recompute path.
stripped(rq, e) ==
    [rq EXCEPT !.originalUrl = rq.url,
               !.url = strip(rq.url, e.path),
               !.path = pathname(strip(rq.url, e.path))]

\* Faulty variant: a handle that leaves the stripped URL in place after a mismatch.
notRestored(rq) == rq

\* handle's two else branches: req.url = req.originalUrl
restored(rq) == [rq EXCEPT !.url = rq.originalUrl]

\* Faulty variant: a route that is matched without comparing the request method.
handleMatchesAnyMethod(e, method, pn) ==
    IF e.type = "route"
    THEN matchParams(e.path, pn)
    ELSE e.type = "mw" /\ matchLoose(e.path, pn)

\* The conditions under which handle invokes the entry's handler.
handleMatches(e, method, pn) ==
    IF e.type = "route" /\ method = e.method
    THEN matchParams(e.path, pn)
    ELSE e.type = "mw" /\ matchLoose(e.path, pn)

\* Faulty variant: a loop that stops one entry early (idx < len).
loopStopsEarly(ended, idx, len) == ~ended /\ idx < len

\* Faulty variant: a loop that does not look at res.writableEnded.
loopIgnoresEnded(ended, idx, len) == idx <= len

\* loop's guard: it returns when the response is ended or the cursor is past len.
loopContinues(ended, idx, len) == ~ended /\ idx <= len

\* this.onError(err, req, res), recorded with the place that called it: the
\* bound noMatchHandler, a continuation (next) or applyHandler's catch.
SinkCall(h, err, via) == [h EXCEPT !.sink = Append(@, [err |-> err, via |-> via])]

LoopReturn ==
    /\ pc = "loop"
    /\ ~loopContinues(res.writableEnded, cl.idx, cl.len)
    /\ pc' = "idle"
    /\ UNCHANGED <<apps, middleware, others, req, res, cl, hist>>

\* What onError does to the response: it writes the status of the error
\* and may or may not end the response.
sunk(rs, err, fin) ==
    [rs EXCEPT !.writableEnded = @ \/ fin,
               !.statusCode = IF err = NotFound THEN 404 ELSE 500]

\* Faulty variant: a handle that binds on every match, of a middleware too.
bindsOnAnyMatch(e, m) == m

\* handle binds req.params, req.route and the status only in the route
\* branch, once the pathname matched.
binds(e, m) == m /\ e.type = "route"

\* req.params = getURLParams(regex, pathname); req.route = the entry of the
\* handler (a field not yet set is <<>>, a set one <<value>>).
bound(rq, e, pn) ==
    [rq EXCEPT !.params = <<getURLParams(e.path, pn)>>, !.route = <<e>>]

\* Faulty variant: a cursor that is read but not advanced.
idxKept(idx) == idx

\* idx++: the cursor after an attempt.
idxAfter(idx) == idx + 1

\* loop calling handle(mw[idx++]): one entry attempt.
Handle ==
    /\ pc = "loop"
    /\ loopContinues(res.writableEnded, cl.idx, cl.len)
    /\ LET e == middleware[cl.app][cl.idx + 1]
           rq == stripped(req, e)
           \* parse(req.originalUrl).pathname: originalUrl is the URL handle found
           m == handleMatches(e, req.method, pathname(req.url))
           h == [hist EXCEPT !.attempts =
                    Append(@, [app |-> cl.app, pos |-> cl.idx, matched |-> m])]
       IN  /\ cl' = [cl EXCEPT !.idx = idxAfter(@)]
           /\ IF ~m
              THEN \* not matched: restore the URL and loop again
                   /\ req' = restored(rq)
                   /\ hist' = h
                   /\ UNCHANGED <<pc, res>>
              ELSE /\ req' = IF binds(e, m) THEN bound(rq, e, pathname(req.url)) ELSE rq
                   /\ pc' = "idle"
                   /\ IF e.handler = NoMatchHandler
                      THEN \* this.onError.bind(null, { code: 404 })(req, res, next)
                           /\ hist' = SinkCall(h, NotFound, "noMatchHandler")
                           /\ \E fin \in BOOLEAN : res' = sunk(res, NotFound, fin)
                      ELSE \* a registered handler starts; res.statusCode = 200
                           /\ hist' = h
                           /\ res' = IF binds(e, m)
                                     THEN [res EXCEPT !.statusCode = 200]
                                     ELSE res
    /\ UNCHANGED <<apps, middleware, others>>

(***************************************************************************)
(* What an invoked handler does: end the response, call its continuation,  *)
(* throw.                                                                  *)
(***************************************************************************)
\* The positions (in the walked list) of the registered handlers invoked so far.
InvokedAt ==
    {hist.attempts[k].pos : k \in {j \in 1..Len(hist.attempts) :
        /\ hist.attempts[j].matched
        /\ middleware[hist.attempts[j].app][hist.attempts[j].pos + 1].handler
             # NoMatchHandler}}

HandlerAt(i) == middleware[cl.app][i + 1].handler

\* Faulty variant: an error path that does not look at res.writableEnded.
errorPathIgnoresEnded(err, ended) == Truthy(err)

\* nextWithReqAndRes: the error goes to onError iff it is truthy and the
\* response is not ended.
errorPath(err, ended) == Truthy(err) /\ ~ended

\* Faulty variant: an applyHandler without the try/catch around the await.
catchesNothing(fn) == FALSE

\* applyHandler: only an AsyncFunction is awaited inside try/catch.
catches(fn) == fn = AsyncFn

\* nextWithReqAndRes(req, res)(err); h is the request's history so far and
\* via the caller.  onError may or may not end the response.
nextWithReqAndRes(err, h, via) ==
    IF errorPath(err, res.writableEnded)
    THEN /\ Len(h.sink) < MaxSinkCalls
         /\ hist' = SinkCall(h, err, via)
         /\ \E fin \in BOOLEAN : res' = sunk(res, err, fin)
         /\ UNCHANGED pc
    ELSE /\ hist' = h
         /\ pc' = "loop"
         /\ UNCHANGED res

\* A handler ends the response (res.end()).
End ==
    /\ pc = "idle"
    /\ InvokedAt # {}
    /\ ~res.writableEnded
    /\ res' = [res EXCEPT !.writableEnded = TRUE]
    /\ UNCHANGED <<apps, middleware, others, pc, req, cl, hist>>

\* A handler calls its continuation: next() or next(err).
Continuation(err) ==
    /\ pc = "idle"
    /\ InvokedAt # {}
    /\ nextWithReqAndRes(err, hist, "next")
    /\ UNCHANGED <<apps, middleware, others, req, cl>>

\* The handler invoked at position i throws v (an AsyncFunction rejects): an
\* invocation throws at most once.
Throw(i, v) ==
    /\ pc = "idle"
    /\ i \in InvokedAt
    /\ i \notin hist.thrown
    /\ LET h == [hist EXCEPT !.thrown = @ \cup {i}]
       IN  IF catches(HandlerAt(i))
           THEN \* catch (e) { next(e) }
                nextWithReqAndRes(v, h, "catch")
           ELSE \* nothing catches: the promise of applyHandler rejects, unhandled
                /\ hist' = h
                /\ UNCHANGED <<pc, res>>
    /\ UNCHANGED <<apps, middleware, others, req, cl>>

Next ==
    \/ \E m \in Methods, u \in Urls : Request(m, u)
    \/ \E u \in Urls : OtherRequest(u)
    \/ HandlerEntry
    \/ LoopReturn
    \/ Handle
    \/ End
    \/ \E err \in Errs \cup {Undefined} : Continuation(err)
    \/ \E i \in InvokedAt, v \in Errs \cup {Undefined} : Throw(i, v)

Spec == Init /\ [][Next]_vars

(***************************************************************************)
(* Vocabulary of the properties.                                           *)
(***************************************************************************)
Dispatched == pc # "new"

\* The request was handed to a sub-application.
IsDelegated == Len(hist.calls) > 1

\* The entry attempts of a history whose handler was invoked, in order.
Invocations(h) == SelectSeq(h.attempts, LAMBDA a : a.matched)

\* The entry an attempt was about.
EntryOf(a) == middleware[a.app][a.pos + 1]

\* The entries registered on an application (what App.handler pushes is not).
IsRegistered(e) == e.handler # NoMatchHandler

\* The pathname of the request as it arrived.
Pathname0 == pathname(hist.url0)

\* What an entry's constraints ask of a request: a route, the same method
\* and a strict match; a middleware, a loose match.
EntryMatches(e, method, pn) ==
    \/ e.type = "route" /\ method = e.method /\ matchParams(e.path, pn)
    \/ e.type = "mw" /\ matchLoose(e.path, pn)

\* A registered entry of the root application accepts the request as it arrived.
SomeEntryMatches ==
    \E k \in 1..Len(middleware[Root]) :
        /\ IsRegistered(middleware[Root][k])
        /\ EntryMatches(middleware[Root][k], req.method, Pathname0)

\* onError was invoked for the request by a continuation called with an error.
ErrorSunk(h) == \E k \in 1..Len(h.sink) : h.sink[k].via = "next"

\* The values a handler throws.
Thrown == Errs \cup {Undefined}

\* One onError invocation more, with this error, from applyHandler's catch.
SunkByCatch(v) == hist'.sink = Append(hist.sink, [err |-> v, via |-> "catch"])

(***************************************************************************)
(* Dispatch order.                                                         *)
(***************************************************************************)
\* C1: first match wins.  For a request that is not delegated, the first
\* handler invoked is that of the lowest-index entry of the walked list whose
\* constraints the request satisfies (route: same method and strict match;
\* middleware: loose match, method ignored), and no handler of a lower-index
\* entry is ever invoked for the request.
C1_FirstMatchWins ==
    (~IsDelegated /\ Invocations(hist) # <<>>) =>
        LET first == Head(Invocations(hist)).pos
            mw == middleware[Root]
        IN  /\ EntryMatches(mw[first + 1], req.method, Pathname0)
            /\ \A j \in 0..(first - 1) : ~EntryMatches(mw[j + 1], req.method, Pathname0)
            /\ \A k \in 1..Len(hist.attempts) :
                  hist.attempts[k].matched => hist.attempts[k].pos >= first

\* A registered handler was invoked first after an earlier entry was passed
\* over, for a request whose method is not that of the routes.
C1_Witness ==
    /\ ~IsDelegated
    /\ Invocations(hist) # <<>>
    /\ Head(Invocations(hist)).pos >= 1
    /\ IsRegistered(EntryOf(Head(Invocations(hist))))
    /\ req.method = "POST"
    /\ \E k \in 1..Len(middleware[Root]) : middleware[Root][k].type = "route"

\* C2: not found.  A request, the first or a later one of the application,
\* that no mount path and no registered entry accepts has the not-found
\* handler (onError bound to the 404 condition) invoked exactly once, and no
\* registered handler is invoked for it.
C2_NotFoundOnce ==
    (Dispatched /\ subappPath(Root, hist.url0) = 0 /\ ~SomeEntryMatches) =>
        /\ \A k \in 1..Len(hist.attempts) :
              hist.attempts[k].matched => ~IsRegistered(EntryOf(hist.attempts[k]))
        /\ Len(hist.sink) <= 1
        /\ pc = "idle" => hist.sink = <<[err |-> NotFound, via |-> "noMatchHandler"]>>

\* A request that arrives after another one left its not-found entry in the
\* list is not found; the sink left the response open.
C2_Witness ==
    /\ hist.before >= 1
    /\ pc = "idle"
    /\ subappPath(Root, hist.url0) = 0
    /\ ~SomeEntryMatches
    /\ IsRegistered(middleware[Root][1])
    /\ ~IsRegistered(middleware[Root][cl.len])
    /\ hist.sink = <<[err |-> NotFound, via |-> "noMatchHandler"]>>
    /\ ~res.writableEnded

\* C3: once the response is finished, no entry handler is started for the
\* request any more, whatever entries remain after the cursor and whatever
\* continuation is called later.
C3_NoHandlerAfterFinish ==
    [][res.writableEnded => Invocations(hist') = Invocations(hist)]_vars

\* A continuation was called after the response was finished, with entries
\* left after the cursor: loop is about to run.
C3_Witness ==
    /\ res.writableEnded
    /\ pc = "loop"
    /\ cl.idx <= cl.len
    /\ Invocations(hist) # <<>>

(***************************************************************************)
(* Errors.                                                                 *)
(***************************************************************************)
\* C4: onError is invoked at most once per request, whatever the handlers of
\* the dispatch do and whether or not the sink ends the response.
\* (Refuted: a sink that leaves the response open is invoked again by the
\* next continuation called with an error.)
C4_SinkAtMostOnce == Len(hist.sink) <= 1

\* C5: error handling is terminal.  After a continuation was called with an
\* error and onError was invoked, no entry of the request is attempted any
\* more, even if a continuation is called again.
\* (Refuted: nothing records the error; after a sink that leaves the
\* response open, next() resumes the walk.)
C5_ErrorIsTerminal ==
    [][ErrorSunk(hist) => hist'.attempts = hist.attempts]_vars

\* C6, as written: an asynchronous handler that throws, whatever it throws
\* and whenever, causes exactly one onError invocation with the thrown value.
C6_AsyncThrowSinksAlways ==
    [][\A i \in InvokedAt, v \in Thrown :
          (Throw(i, v) /\ HandlerAt(i) = AsyncFn) => SunkByCatch(v)]_vars

\* C6, as amended: a truthy value thrown by an asynchronous handler while
\* the response is not finished causes exactly one onError invocation, with
\* the thrown value, and nothing else of the dispatch moves (the outcome of
\* next(err)); thrown otherwise, it causes no onError invocation and the
\* walk goes on as after next().
C6_AsyncThrowSinks ==
    [][\A i \in InvokedAt, v \in Thrown :
          (Throw(i, v) /\ HandlerAt(i) = AsyncFn) =>
              IF Truthy(v) /\ ~res.writableEnded
              THEN SunkByCatch(v) /\ UNCHANGED <<pc, cl, req>>
              ELSE hist'.sink = hist.sink /\ pc' = "loop"]_vars

\* An asynchronous handler threw "e1" with the response open, and that is
\* the one error the sink has seen.
C6_Witness ==
    /\ \E i \in hist.thrown : HandlerAt(i) = AsyncFn
    /\ hist.sink = <<[err |-> "e1", via |-> "catch"]>>
    /\ ~res.writableEnded

\* C7: a synchronous handler that throws while the response is unfinished
\* has the thrown value delivered to onError, as an asynchronous one.
\* (Refuted: applyHandler catches only around an AsyncFunction.)
C7_SyncThrowSinks ==
    [][\A i \in InvokedAt, v \in Thrown :
          (Throw(i, v) /\ HandlerAt(i) = SyncFn /\ Truthy(v) /\ ~res.writableEnded) =>
              SunkByCatch(v)]_vars

(***************************************************************************)
(* Mounted sub-applications.                                               *)
(***************************************************************************)
\* The not-found entries in an application's list.
Pushed(a) == Len(SelectSeq(middleware[a], LAMBDA e : ~IsRegistered(e)))

\* C8: delegation is total.  A request delegated to a mounted
\* sub-application has that application's handler called once, with the
\* request as it arrived; no entry of the parent is attempted or invoked for
\* it and the parent does not walk its list (nor push onto it) for it.
C8_DelegationIsTotal ==
    IsDelegated =>
        /\ Len(hist.calls) = 2
        /\ hist.calls[2].app \in SubApps
        /\ hist.calls[2].url = hist.url0
        /\ \A k \in 1..Len(hist.attempts) : hist.attempts[k].app = hist.calls[2].app
        /\ Pushed(Root) <= others

\* A delegated request that an entry of the parent accepts, and that the
\* sub-application did not find.
C8_Witness ==
    /\ IsDelegated
    /\ SomeEntryMatches
    /\ pc = "idle"
    /\ hist.sink = <<[err |-> NotFound, via |-> "noMatchHandler"]>>

\* A mount path is a loose-match prefix of a request path: the path is the
\* mount path, or begins with it immediately followed by "/".
IsLoosePrefix(mountPath, path) ==
    path = mountPath \/ startsWith(path, mountPath \o "/")

\* The mounts whose path is a loose-match prefix of the request's path.
LooseMounts ==
    {k \in 1..Len(apps[Root]) : IsLoosePrefix(apps[Root][k].path, Pathname0)}

\* C9: mount selection.  A request is delegated iff some mount path loosely
\* matches the request path (/foo does not capture /foobar), and to the
\* first registered such mount.
\* (Refuted: the mount is found with String.startsWith on the URL.)
C9_MountSelection ==
    pc \in {"loop", "idle"} =>
        /\ IsDelegated <=> LooseMounts # {}
        /\ IsDelegated =>
              \E k \in LooseMounts :
                  /\ \A j \in LooseMounts : k <= j
                  /\ hist.calls[2].app = apps[Root][k].app

(***************************************************************************)
(* The request URL.                                                        *)
(***************************************************************************)
\* C10: URL restoration is lossless.  As long as every entry attempted for
\* a request was a mismatch, however many there were and however long their
\* patterns, req.url is the URL the request arrived with.
C10_UrlRestored ==
    (Dispatched /\ Invocations(hist) = <<>>) => req.url = hist.url0

\* Two mismatches in a row, one of a pattern longer than the URL.
C10_Witness ==
    /\ Len(hist.attempts) >= 2
    /\ Invocations(hist) = <<>>
    /\ \E k \in 1..Len(hist.attempts) :
          Len(EntryOf(hist.attempts[k]).path) > Len(hist.url0)
    /\ req.url = hist.url0

(***************************************************************************)
(* The stored list and the walk over it.                                   *)
(***************************************************************************)
\* The entries registered on an application, in registration order.
Registered(a) == SelectSeq(middleware[a], IsRegistered)

\* The attempts of the request at not-found entries.
TerminalAttempts == SelectSeq(hist.attempts, LAMBDA a : ~IsRegistered(EntryOf(a)))

\* C11: dispatch never mutates the stored registry: no step of any call of
\* App.handler changes the length or the contents of any this.middleware.
\* (Refuted: every call that walks pushes its not-found entry onto it.)
C11_RegistryNeverMutated == [][middleware' = middleware]_vars

\* C12: the not-found entry matches every request, and the walk of every
\* request, the first or a later one of the application, makes at most
\* len(entries) + 1 entry attempts, entries being the registered ones.
\* (Refuted: a later request walks the not-found entries earlier requests
\* left behind as well.)
C12_WalkBounded ==
    /\ \A k \in 1..Len(TerminalAttempts) : TerminalAttempts[k].matched
    /\ Len(hist.attempts) <= Len(Registered(cl.app)) + 1

\* C13: the handlers invoked for a request depend on the request and the
\* registered entries only: whether it is the first request or a later one,
\* they are handlers of registered entries and, after them, the not-found
\* handler of the entry at position len(entries), as for a first request.
\* (Refuted: a later request has not-found entries of earlier requests
\* invoked at further positions.)
C13_InvokedAsForFirstRequest ==
    \A k \in 1..Len(hist.attempts) :
        hist.attempts[k].matched => hist.attempts[k].pos <= Len(Registered(cl.app))

\* C14: every entry, also one attempted after a matched entry passed
\* control on, is matched against the pathname of the URL the request
\* arrived with, not against the URL a previous entry stripped.
\* (Refuted: a matched entry's strip of req.url is never undone.)
C14_NextEntryStartsFresh ==
    \A k \in 1..Len(hist.attempts) :
        hist.attempts[k].matched <=>
            EntryMatches(EntryOf(hist.attempts[k]), req.method, Pathname0)

\* C15: the not-found entry is last in the walked list, is reached at most
\* once per request, and the not-found path is taken only if no registered
\* entry matched the request.
\* (Refuted: reaching the entry always invokes the not-found handler, also
\* after a pass-through middleware matched.)
C15_NotFoundOnlyIfNothingMatched ==
    pc \in {"loop", "idle"} =>
        /\ ~IsRegistered(middleware[cl.app][cl.len + 1])
        /\ Len(TerminalAttempts) <= 1
        /\ (\E k \in 1..Len(hist.sink) : hist.sink[k].via = "noMatchHandler") =>
              \A k \in 1..Len(hist.attempts) :
                  hist.attempts[k].matched => ~IsRegistered(EntryOf(hist.attempts[k]))

(***************************************************************************)
(* Continuations.                                                          *)
(***************************************************************************)
\* The attempts of the request at registered entries whose handler was invoked.
RegisteredInvocations ==
    SelectSeq(hist.attempts, LAMBDA a : a.matched /\ IsRegistered(EntryOf(a)))

\* C16: the continuation handed to an entry makes the dispatcher invoke at
\* most one further entry, however often it is called.  When one registered
\* handler was invoked, every continuation call of the request is a call of
\* the continuation handed to it (the not-found handler calls none), so at
\* most one entry is invoked after it.
\* (Refuted: every call of a continuation re-enters loop.)
C16_ContinuationOncePerStep ==
    Len(RegisteredInvocations) = 1 => Len(Invocations(hist)) <= 2

(***************************************************************************)
(* Progress.  App.handler, handle and loop are synchronous code that runs  *)
(* to completion, and every invoked registered handler sooner or later     *)
(* ends the response or calls its continuation.                            *)
(***************************************************************************)
Arrives == \E m \in Methods, u \in Urls : Request(m, u)

\* An invoked registered handler ends the response or calls its continuation.
HandlerActs == End \/ \E err \in Errs \cup {Undefined} : Continuation(err)

\* A handler that throws is an AsyncFunction: none throws synchronously.
AsyncThrow(i, v) == HandlerAt(i) = AsyncFn /\ Throw(i, v)

LiveNext ==
    \/ Arrives
    \/ \E u \in Urls : OtherRequest(u)
    \/ HandlerEntry
    \/ LoopReturn
    \/ Handle
    \/ HandlerActs
    \/ \E i \in InvokedAt, v \in Errs \cup {Undefined} : AsyncThrow(i, v)

\* What is bound to happen: the request arrives, synchronous code runs on,
\* an invoked handler acts.
Progress == Arrives \/ HandlerEntry \/ Handle \/ LoopReturn \/ HandlerActs

LiveSpec == Init /\ [][LiveNext]_vars /\ WF_vars(Progress)

\* The request's response is finished, or onError (the not-found handler
\* included) was invoked for it.
Terminal == res.writableEnded \/ hist.sink # <<>>

\* C17: every dispatch eventually reaches a terminal state: the request
\* (which arrives, and whose terminal state lasts) eventually has its
\* response finished or onError / the not-found handler invoked; the walk
\* never stops for good with the response unfinished and no sink invoked.
C17_EventuallyTerminal == <>Terminal

\* A registered handler passed control on and the walk ended in the
\* not-found handler, which left the response open.
C17_Witness ==
    /\ pc = "idle"
    /\ RegisteredInvocations # <<>>
    /\ hist.sink # <<>>
    /\ hist.sink[Len(hist.sink)].via = "noMatchHandler"
    /\ ~res.writableEnded
    /\ cl.idx = cl.len + 1

(***************************************************************************)
(* The continuation's error path and the cursor.                           *)
(***************************************************************************)
\* C18: a continuation called with an error after the response is finished
\* discards the error: onError is not invoked, no entry is attempted (nor
\* by the loop it runs, which returns at once) and the cursor and the
\* request URL stay as they are; called with an error while the response is
\* unfinished, it invokes onError with that error for this request and does
\* not advance the cursor.
C18_ErrorAfterFinishDiscarded ==
    [][/\ \A err \in Errs :
            Continuation(err) =>
                IF res.writableEnded
                THEN /\ hist'.sink = hist.sink
                     /\ hist'.attempts = hist.attempts
                     /\ cl' = cl
                     /\ req' = req
                ELSE /\ hist'.sink = Append(hist.sink, [err |-> err, via |-> "next"])
                     /\ hist'.attempts = hist.attempts
                     /\ cl' = cl
       /\ (pc = "loop" /\ res.writableEnded) =>
              /\ hist'.sink = hist.sink
              /\ hist'.attempts = hist.attempts
              /\ cl' = cl
              /\ req' = req]_vars

\* A continuation was called with an error while the response was
\* unfinished and entries were left: onError has seen the error, and the
\* cursor stands where the last attempt left it.
C18_Witness ==
    /\ pc = "idle"
    /\ hist.sink = <<[err |-> "e1", via |-> "next"]>>
    /\ ~res.writableEnded
    /\ cl.idx = Len(hist.attempts)
    /\ cl.idx <= cl.len

\* C19: no entry is retried.  The cursor counts the attempts made, so it
\* only increases, and stays within the list walked; the positions
\* attempted increase strictly, so each is attempted, and its handler
\* invoked, at most once, whatever continuations are called and while other
\* requests are dispatched by the same application.
C19_NoEntryRetried ==
    pc \in {"loop", "idle"} =>
        /\ cl.idx = Len(hist.attempts)
        /\ cl.idx <= cl.len + 1
        /\ cl.len + 1 <= Len(middleware[cl.app])
        /\ \A k \in 1..Len(hist.attempts) :
              /\ hist.attempts[k].app = cl.app
              /\ hist.attempts[k].pos = k - 1

\* Several entries were invoked for a request during whose dispatch another
\* request was dispatched by the application.
C19_Witness ==
    /\ others > hist.before
    /\ Len(Invocations(hist)) >= 2
    /\ Len(hist.attempts) = cl.len + 1
    /\ Len(middleware[cl.app]) > cl.len + 1

(***************************************************************************)
(* What a match binds.                                                     *)
(***************************************************************************)
\* The attempt a step makes (the step is one of handle).
Attempted == hist'.attempts[Len(hist'.attempts)]

\* C20: req.params and req.route are set by the dispatcher only when a
\* route entry matches (method equal and strict match), in the step that
\* sets the status to 200 and invokes the handler; an attempt that does not
\* match and a middleware that matches leave req.params, req.route and the
\* status as they are (the not-found entry's handler, onError, writes its
\* own status), and so does every step that attempts no entry.
C20_BoundOnRouteMatchOnly ==
    [][IF hist'.attempts # hist.attempts
       THEN LET e == EntryOf(Attempted)
                pn == pathname(req.url)
            IN  IF Attempted.matched /\ e.type = "route"
                THEN /\ req.method = e.method
                     /\ matchParams(e.path, pn)
                     /\ req'.params = <<getURLParams(e.path, pn)>>
                     /\ req'.route = <<e>>
                     /\ res'.statusCode = 200
                     /\ pc' = "idle"
                ELSE /\ req'.params = req.params
                     /\ req'.route = req.route
                     /\ IsRegistered(e) => res'.statusCode = res.statusCode
       ELSE /\ req'.params = req.params
            /\ req'.route = req.route]_vars

\* A route matched after onError, which left the response open, had written
\* an error status: the parameter is bound and the status is 200 again.
C20_Witness ==
    /\ hist.sink # <<>>
    /\ res.statusCode = 200
    /\ req.route # <<>>
    /\ req.params = <<{<<"p", "a">>}>>
    /\ \E k \in 1..Len(hist.attempts) :
          hist.attempts[k].matched /\ EntryOf(hist.attempts[k]).type = "mw"

====
